---- MODULE Spec2Model ----
(***************************************************************************)
(* Model of wifiman (src/wifi_manager.cpp, src/wifi_manager.h): the         *)
(* network registry, the two single-slot command mailboxes, the worker      *)
(* task, the retry/backoff handling of radio events and the best-network    *)
(* selector.                                                                *)
(*                                                                          *)
(* Strings are atoms: NullStr is the null pointer, EmptyStr is "", and      *)
(* 1, 2, 3 are distinct non-empty names.  Registry indices are the      *)
(* code's 0-based uint8_t indices; networks[i + 1] is data->networks[i].    *)
(* Times are 32-bit unsigned values kept as <<high, low>> 16-bit halves.    *)
(***************************************************************************)
EXTENDS Integers, Sequences, FiniteSets, TLC

(* ------------------------------ bounds --------------------------------- *)
MaxCapacity == 2
MaxScan == 2
MaxRetryLimit == 5
MaxTicks == 2
MaxIssues == 2

(* ------------------------- program constants --------------------------- *)
NoIndex == 255
NETWORK_STATE_UNKNOWN == -1
NETWORK_FAILED_BEFORE == 0
NETWORK_WORKED_BEFORE == 1
WM_IDLE_STATUS == 0
CONNECTING == 1
CONNECTED == 2
DISCONNECTED == 3
NETWORK_NOT_FOUND == 4
CONNECTION_FAILED == 5
WMRT_SCAN_NOT_READY == -3
WMRT_NETWORK_NOT_IN_LIST == -2
WMRT_SUCCESS == 0
WM_RETRIES_DEFAULT == 2
WM_SCAN_INTERVAL_DEFAULT_MS == 30000
WM_SCAN_MAX_AGE_MS == 60000
WIFI_REASON_ASSOC_LEAVE == 8
WIFI_REASON_AUTH_LEAVE == 3
WIFI_REASON_NO_AP_FOUND == 201
WIFI_REASON_AUTH_FAIL == 202
WIFI_SCAN_NOT_STARTED == -2
WIFI_SCAN_RUNNING == -1
BackoffCapMs == 8000
BackoffBaseMs == 1000
BackoffCapAt == 3
INT_MIN == (-2147483647) - 1

NullStr == -1
EmptyStr == 0
Names == {1, 2, 3}
PassValues == {NullStr, EmptyStr, 1}
Reasons == {WIFI_REASON_ASSOC_LEAVE, WIFI_REASON_AUTH_LEAVE, WIFI_REASON_NO_AP_FOUND,
            WIFI_REASON_AUTH_FAIL}
RssiValues == {-70, -40}
\* wifiman_create leaves the status record's union member unwritten
UninitByte == {0, 255}

(* ----------------------- 32-bit unsigned clock ------------------------- *)
Half == 65536

U32(n) == << n \div Half, n % Half >>

U32Add(a, b) ==
    LET lo == a[2] + b[2]
        hi == a[1] + b[1] + (lo \div Half)
    IN  << hi % Half, lo % Half >>

U32Sub(a, b) ==
    LET lo == a[2] - b[2]
        hi == a[1] - b[1] - (IF lo < 0 THEN 1 ELSE 0)
    IN  << hi % Half, lo % Half >>

\* a > n for a 32-bit a and a small non-negative n
U32Gt(a, n) == a[1] > n \div Half \/ (a[1] = n \div Half /\ a[2] > n % Half)

BootTime == << Half - 1, Half - BackoffBaseMs >>
TickMs == BackoffBaseMs

VARIABLES
    networks, capacity, status,
    autoConnect, maxRetries, retryCount, scanTime, scanInterval,
    nextConnect, nextScan,
    connect, scan, notifyValue, taskNotify, pc,
    wlConnected, scanComplete, scanResults,
    now, lastOp, streak,
    service, pref, lastPeriodic, mbox

regVars == << networks, capacity, status >>
cfgVars == << autoConnect, maxRetries, scanInterval >>
boxVars == << nextConnect, nextScan, taskNotify >>
workerVars == << connect, scan, notifyValue, pc >>
radioVars == << wlConnected, scanComplete, scanResults >>
vars == << networks, capacity, status, autoConnect, maxRetries, retryCount, scanTime,
           scanInterval, nextConnect, nextScan, connect, scan, notifyValue, taskNotify,
           pc, wlConnected, scanComplete, scanResults, now, lastOp, streak,
           service, pref, lastPeriodic, mbox >>

\* the manager's life cycle, the persistent store, the time of the last
\* periodic scan start and the tasks inside the connect mailbox
lifeVars == << service, pref, lastPeriodic, mbox >>

length == Len(networks)

\* what the last step was: the operation, its argument, the event's reason, the
\* return value, whether a retry was scheduled and with which delay, whether the
\* status callback ran, RetryCounter before the step, and a per-operation extra
Op(op, arg, reason, ret, retried, delay, cb, rc0, aux) ==
    [op |-> op, arg |-> arg, reason |-> reason, ret |-> ret, retried |-> retried,
     delay |-> delay, cb |-> cb, rc0 |-> rc0, aux |-> aux]

NoOp == Op("init", 0, 0, 0, FALSE, 0, FALSE, 0, 0)

\* the selector did not run in the step
NotRun == NoIndex

\* the run of consecutive ConnectionFailed disconnects of one network, counted
\* from RetryCounter = 0: the network and the number of failures so far (the
\* count stops at MaxRetryLimit + 1)
NoStreak == [ssid |-> NullStr, n |-> 0]

(* ------------------------------ registry ------------------------------- *)
\* a lookup that misses every entry (the registry's uniqueness depends on the
\* lookup finding the entry that is there)
IndexOfNothing(nets, ssid) == NoIndex

\* first index whose entry satisfies strcmp(...) == 0, or NoIndex
IndexOf(nets, ssid) ==
    IF \E i \in 1..Len(nets) : nets[i].ssid = ssid
    THEN (CHOOSE i \in 1..Len(nets) :
              /\ nets[i].ssid = ssid
              /\ \A j \in 1..(i - 1) : nets[j].ssid # ssid) - 1
    ELSE NoIndex

wifiman_findNetworkInList(nets, ssid) ==
    IF ssid = NullStr \/ ssid = EmptyStr THEN NoIndex ELSE IndexOf(nets, ssid)

wifiman_countUsableNetworks(nets) ==
    Cardinality({i \in 1..Len(nets) : nets[i].state # NETWORK_FAILED_BEFORE})

RemoveAt(nets, index) ==
    [j \in 1..(Len(nets) - 1) |-> IF j <= index THEN nets[j] ELSE nets[j + 1]]

\* a renumbering that leaves a later target where it was (the target's
\* following its network depends on the decrement)
RenumberTargetKept(target, index) ==
    IF target = index THEN NoIndex ELSE target

\* a renumbering that decrements the sentinel as well (the sentinel's staying
\* 255 depends on the test against it)
RenumberTargetNoSentinel(target, index) ==
    IF target = index THEN NoIndex
    ELSE IF target > index THEN target - 1
    ELSE target

RenumberTarget(target, index) ==
    IF target = index THEN NoIndex
    ELSE IF target > index /\ target # NoIndex THEN target - 1
    ELSE target

\* no periodic scan was started yet
\* the connect mailbox with no task inside: the lock is free, the producers
\* (the application task and the event task) are outside _wifiman_connect, and
\* every field of the slot and of the local copy is that of the initial command 0
NoTraffic ==
    [lock |-> "free", app |-> "idle", ev |-> "idle",
     appCmd |-> [execTime |-> << 0, 0 >>, networkIndex |-> 0, issuedByUser |-> TRUE],
     evCmd |-> [execTime |-> << 0, 0 >>, networkIndex |-> 0, issuedByUser |-> FALSE],
     appId |-> 0, evId |-> 0, issued |-> 0,
     tagNext |-> << 0, 0, 0 >>, tagLocal |-> << 0, 0, 0 >>, log |-> << >>]

Never == << >>

\* the persistent store: per slot the three keys, each absent (NoKey) or holding
\* a value
NoKey == -2
Slots == 0..(MaxCapacity - 1)
NoKeys == [ssid |-> [i \in Slots |-> NoKey], pass |-> [i \in Slots |-> NoKey],
           state |-> [i \in Slots |-> NoKey]]

\* the state wifiman_create and wifiman_start leave, the registry apart
InitManager ==
    /\ status \in [targetNetwork : {NoIndex}, code : {WM_IDLE_STATUS}, info : UninitByte]
    /\ autoConnect \in BOOLEAN
    /\ maxRetries = WM_RETRIES_DEFAULT
    /\ retryCount = 0
    /\ scanTime = U32(0)
    /\ scanInterval = WM_SCAN_INTERVAL_DEFAULT_MS
    /\ nextConnect = [execTime |-> U32(0), networkIndex |-> 0, issuedByUser |-> TRUE, handled |-> TRUE]
    /\ nextScan = [execTime |-> U32(0), handled |-> TRUE]
    /\ connect = [execTime |-> U32(0), networkIndex |-> 0, issuedByUser |-> TRUE, handled |-> TRUE]
    /\ scan = [execTime |-> U32(0), handled |-> TRUE]
    /\ notifyValue = 0
    /\ taskNotify = 0
    /\ pc = "pullConnect"
    /\ wlConnected = FALSE
    /\ scanComplete = WIFI_SCAN_NOT_STARTED
    /\ scanResults = << >>
    /\ now = BootTime
    /\ lastOp = NoOp
    /\ streak = NoStreak
    /\ service = "started"
    /\ pref = NoKeys
    /\ lastPeriodic = Never
    /\ mbox = NoTraffic

\* a registry created empty with capacity 1..MaxCapacity
Init ==
    /\ capacity \in 1..MaxCapacity
    /\ networks = << >>
    /\ InitManager

Entry(ssid) == [ssid |-> ssid, pass |-> NullStr, state |-> NETWORK_STATE_UNKNOWN]

\* a registry to which one or two networks were added before the start
InitKnown ==
    /\ capacity = MaxCapacity
    /\ networks \in {<< Entry(1) >>, << Entry(1), Entry(2) >>}
    /\ InitManager

wifiman_addOrUpdateNetwork(ssid, pass) ==
    /\ IF ssid = NullStr
       THEN /\ lastOp' = Op("addOrUpdateNetwork", ssid, 0, NoIndex, FALSE, 0, FALSE, retryCount, 0)
            /\ UNCHANGED networks
       ELSE IF IndexOf(networks, ssid) # NoIndex
       THEN LET i == IndexOf(networks, ssid) IN
            /\ networks' = [networks EXCEPT ![i + 1] =
                               [ssid |-> ssid, pass |-> pass, state |-> NETWORK_STATE_UNKNOWN]]
            /\ lastOp' = Op("addOrUpdateNetwork", ssid, 0, i, FALSE, 0, FALSE, retryCount, 1)
       ELSE IF length = capacity
       THEN /\ lastOp' = Op("addOrUpdateNetwork", ssid, 0, NoIndex, FALSE, 0, FALSE, retryCount, 0)
            /\ UNCHANGED networks
       ELSE /\ networks' = Append(networks,
                               [ssid |-> ssid, pass |-> pass, state |-> NETWORK_STATE_UNKNOWN])
            /\ lastOp' = Op("addOrUpdateNetwork", ssid, 0, length, FALSE, 0, FALSE, retryCount, 0)
    /\ streak' = NoStreak
    /\ UNCHANGED << capacity, status, cfgVars, retryCount, scanTime, boxVars, workerVars,
                    radioVars, now >>

DeleteEffect(name, arg, index) ==
    /\ IF index >= length
       THEN /\ lastOp' = Op(name, arg, 0, NoIndex, FALSE, 0, FALSE, retryCount, status.targetNetwork)
            /\ UNCHANGED << networks, status >>
       ELSE /\ networks' = RemoveAt(networks, index)
            /\ status' = [status EXCEPT !.targetNetwork = RenumberTarget(@, index)]
            /\ lastOp' = Op(name, arg, 0, index, FALSE, 0, FALSE, retryCount, status.targetNetwork)
    /\ streak' = NoStreak
    /\ UNCHANGED << capacity, cfgVars, retryCount, scanTime, boxVars, workerVars,
                    radioVars, now >>

wifiman_deleteNetwork(index) == DeleteEffect("deleteNetwork", index, index)

wifiman_deleteNetworkByName(ssid) ==
    DeleteEffect("deleteNetworkByName", ssid, wifiman_findNetworkInList(networks, ssid))

(* --------------------------- command channel --------------------------- *)
\* the command _wifiman_connect publishes in the shared connect mailbox
_wifiman_connect(index, byUser, delay) ==
    [execTime |-> U32Add(now, U32(delay)), networkIndex |-> index,
     issuedByUser |-> byUser, handled |-> FALSE]

\* the command _wifiman_doScan publishes in the shared scan mailbox
_wifiman_doScan(delay) ==
    [execTime |-> U32Add(now, U32(delay)), handled |-> FALSE]

\* the naive numeric comparison of the two clock values
NaivePassed(timeToTest, t) ==
    t[1] > timeToTest[1] \/ (t[1] = timeToTest[1] /\ t[2] >= timeToTest[2])

\* ((timeToTest - now - 1ul) & 0x80000000) != 0
_time_now_or_passed(timeToTest, t) ==
    U32Sub(U32Sub(timeToTest, t), U32(1))[1] >= Half \div 2

\* the worker's priority rule for taking over the shared connect command
AcceptConnect(next, local) ==
    next.issuedByUser \/ local.handled \/ ~local.issuedByUser

(* --------------------------- retry / backoff --------------------------- *)
\* a backoff that keeps doubling (the 8 s ceiling depends on the cap)
BackoffUncapped(rc) == BackoffBaseMs * (2 ^ rc)

\* _wifiman_retryCount >= 3 ? 8000 : 1000 * (1 << _wifiman_retryCount)
BackoffDelay(rc) ==
    IF rc >= BackoffCapAt THEN BackoffCapMs ELSE BackoffBaseMs * (2 ^ rc)

\* the switch on the disconnect reason: the status code it sets
ReasonCode(reason) ==
    IF reason \in {WIFI_REASON_ASSOC_LEAVE, WIFI_REASON_AUTH_LEAVE} THEN DISCONNECTED
    ELSE IF reason = WIFI_REASON_NO_AP_FOUND THEN NETWORK_NOT_FOUND
    ELSE CONNECTION_FAILED

\* a marking that waits for one failure more (the failure count at which an
\* entry becomes FailedBefore depends on the comparison)
MarksFailedLate(index, len, rc, max, reason) ==
    /\ reason \notin {WIFI_REASON_ASSOC_LEAVE, WIFI_REASON_AUTH_LEAVE, WIFI_REASON_NO_AP_FOUND}
    /\ index < len
    /\ rc > max

\* the default branch marks the entry once the retries are used up
MarksFailed(index, len, rc, max, reason) ==
    /\ ReasonCode(reason) = CONNECTION_FAILED
    /\ index < len
    /\ rc >= max

\* a retry condition that treats both leave reasons alike
ShouldRetryNoLeave(index, len, rc, max, reason) ==
    /\ index < len
    /\ rc < max
    /\ reason \notin {WIFI_REASON_ASSOC_LEAVE, WIFI_REASON_AUTH_LEAVE}

\* the condition under which the disconnect handler schedules a retry
ShouldRetry(index, len, rc, max, reason) ==
    /\ index < len
    /\ rc < max
    /\ reason # WIFI_REASON_ASSOC_LEAVE

(* ------------------------- best-network selector ----------------------- *)
RECURSIVE BestScanLast(_, _, _, _, _)
\* a loop that lets a later result of equal strength win (the tie-break by scan
\* order depends on the strict comparison)
BestScanLast(nets, results, i, bestRSSI, bestIndex) ==
    IF i > Len(results) THEN bestIndex
    ELSE LET result == wifiman_findNetworkInList(nets, results[i].ssid) IN
         IF result >= Len(nets) \/ nets[result + 1].state = NETWORK_FAILED_BEFORE
         THEN BestScanLast(nets, results, i + 1, bestRSSI, bestIndex)
         ELSE IF results[i].rssi >= bestRSSI
         THEN BestScanLast(nets, results, i + 1, results[i].rssi, result)
         ELSE BestScanLast(nets, results, i + 1, bestRSSI, bestIndex)

RECURSIVE BestScan(_, _, _, _, _)
\* the loop over the scan results: the registry index chosen, or -1
BestScan(nets, results, i, bestRSSI, bestIndex) ==
    IF i > Len(results) THEN bestIndex
    ELSE LET result == wifiman_findNetworkInList(nets, results[i].ssid) IN
         IF result >= Len(nets) THEN BestScan(nets, results, i + 1, bestRSSI, bestIndex)
         ELSE IF nets[result + 1].state = NETWORK_FAILED_BEFORE
         THEN BestScan(nets, results, i + 1, bestRSSI, bestIndex)
         ELSE IF results[i].rssi > bestRSSI
         THEN BestScan(nets, results, i + 1, results[i].rssi, result)
         ELSE BestScan(nets, results, i + 1, bestRSSI, bestIndex)

\* a reset pass that resets nothing
ResetNothing(nets) == nets

ResetFailed(nets) ==
    [i \in 1..Len(nets) |->
        IF nets[i].state = NETWORK_FAILED_BEFORE
        THEN [nets[i] EXCEPT !.state = NETWORK_STATE_UNKNOWN]
        ELSE nets[i]]

\* the manager state a handler works on
Mgr == [networks |-> networks, status |-> status, retryCount |-> retryCount,
        nextConnect |-> nextConnect, nextScan |-> nextScan, scanTime |-> scanTime,
        taskNotify |-> taskNotify, cb |-> FALSE, ret |-> NotRun]

ScanIsOld(m) == U32Gt(U32Sub(now, m.scanTime), WM_SCAN_MAX_AGE_MS)

\* wifiman_connectToBestWifi on manager state m: the state it leaves, with its
\* return code in ret
BestWifi(m, scanState, results) ==
    IF Len(m.networks) = 0 THEN [m EXCEPT !.ret = WMRT_NETWORK_NOT_IN_LIST]
    ELSE IF ScanIsOld(m)
    THEN [m EXCEPT !.nextScan = _wifiman_doScan(0), !.scanTime = now,
                   !.ret = WMRT_SCAN_NOT_READY]
    ELSE IF scanState = WIFI_SCAN_NOT_STARTED
    THEN [m EXCEPT !.nextScan = _wifiman_doScan(0), !.ret = WMRT_SCAN_NOT_READY]
    ELSE IF scanState = WIFI_SCAN_RUNNING THEN [m EXCEPT !.ret = WMRT_SCAN_NOT_READY]
    ELSE IF scanState = 0 THEN [m EXCEPT !.ret = WMRT_NETWORK_NOT_IN_LIST]
    ELSE LET bestIndex == BestScan(m.networks, results, 1, INT_MIN, -1) IN
         IF bestIndex = -1
         THEN [m EXCEPT !.networks = ResetFailed(m.networks),
                        !.ret = WMRT_NETWORK_NOT_IN_LIST]
         ELSE [m EXCEPT !.nextConnect = _wifiman_connect(bestIndex, TRUE, 0),
                        !.retryCount = 0,
                        !.status = [@ EXCEPT !.code = CONNECTING, !.targetNetwork = bestIndex],
                        !.cb = TRUE,
                        !.ret = WMRT_SUCCESS]

\* a check that also resumes periodic scanning when no scan is ready (which
\* outcomes resume depends on the comparison with WMRT_NETWORK_NOT_IN_LIST)
CheckConnectionEager(m, isConnected, scanState, results) ==
    IF isConnected THEN m
    ELSE IF wifiman_countUsableNetworks(m.networks) = 0 THEN m
    ELSE LET r == BestWifi(m, scanState, results) IN
         [r EXCEPT !.taskNotify = IF r.ret \in {WMRT_NETWORK_NOT_IN_LIST, WMRT_SCAN_NOT_READY}
                                  THEN 1 ELSE 0]

\* _wifiman_checkConnection on manager state m; isConnected is
\* WiFi.status() == WL_CONNECTED
CheckConnection(m, isConnected, scanState, results) ==
    IF isConnected THEN m
    ELSE IF wifiman_countUsableNetworks(m.networks) = 0 THEN m
    ELSE LET r == BestWifi(m, scanState, results) IN
         [r EXCEPT !.taskNotify = IF r.ret = WMRT_NETWORK_NOT_IN_LIST THEN 1 ELSE 0]

\* the manager state becomes r; everything a handler cannot touch stays
Commit(r) ==
    /\ networks' = r.networks
    /\ status' = r.status
    /\ retryCount' = r.retryCount
    /\ nextConnect' = r.nextConnect
    /\ nextScan' = r.nextScan
    /\ scanTime' = r.scanTime
    /\ taskNotify' = r.taskNotify
    /\ UNCHANGED << capacity, cfgVars, workerVars, now >>

(* ------------------------------ public API ----------------------------- *)
\* assert(index < data->length) is the caller's obligation
wifiman_connectToNetwork(index) ==
    /\ index < length
    /\ Commit([Mgr EXCEPT !.nextConnect = _wifiman_connect(index, TRUE, 0),
                          !.retryCount = 0,
                          !.status = [@ EXCEPT !.code = CONNECTING, !.targetNetwork = index]])
    /\ lastOp' = Op("connectToNetwork", index, 0, WMRT_SUCCESS, FALSE, 0, TRUE, retryCount, 0)
    /\ streak' = NoStreak
    /\ UNCHANGED radioVars

wifiman_connectToBestWifi ==
    LET r == BestWifi(Mgr, scanComplete, scanResults) IN
    /\ Commit(r)
    /\ lastOp' = Op("connectToBestWifi", 0, 0, r.ret, FALSE, 0, r.cb, retryCount,
                    Cardinality({i \in 1..length : networks[i].state = NETWORK_FAILED_BEFORE}))
    /\ streak' = IF r.ret = WMRT_SUCCESS THEN NoStreak ELSE streak
    /\ UNCHANGED radioVars

wifiman_setRetryCount(count) ==
    /\ maxRetries' = count
    /\ lastOp' = Op("setRetryCount", count, 0, 0, FALSE, 0, FALSE, retryCount, 0)
    /\ streak' = NoStreak
    /\ UNCHANGED << regVars, autoConnect, scanInterval, retryCount, scanTime, boxVars,
                    workerVars, radioVars, now >>

(* ----------------------------- radio events ---------------------------- *)
_wifiman_wifiConnectedEvent(ssid) ==
    LET index == wifiman_findNetworkInList(networks, ssid)
        st == [targetNetwork |-> index, code |-> CONNECTED, info |-> (retryCount + 1) % 256]
        r == IF index >= length
             THEN [Mgr EXCEPT !.status = st]
             ELSE [Mgr EXCEPT !.status = st,
                              !.retryCount = 0,
                              !.networks = [@ EXCEPT ![index + 1].state = NETWORK_WORKED_BEFORE],
                              !.taskNotify = IF autoConnect THEN 0 ELSE @]
    IN  /\ Commit(r)
        /\ wlConnected' = TRUE
        /\ lastOp' = Op("connectedEvent", ssid, 0, index, FALSE, 0, TRUE, retryCount, 0)
        /\ streak' = NoStreak
        /\ UNCHANGED << scanComplete, scanResults >>

_wifiman_wifiDisconnectedEvent(ssid, reason) ==
    LET index == wifiman_findNetworkInList(networks, ssid)
        nets == IF MarksFailed(index, length, retryCount, maxRetries, reason)
                THEN [networks EXCEPT ![index + 1].state = NETWORK_FAILED_BEFORE]
                ELSE networks
        st == [targetNetwork |-> index, code |-> ReasonCode(reason), info |-> reason]
        m == [Mgr EXCEPT !.networks = nets, !.status = st]
        retry == ShouldRetry(index, length, retryCount, maxRetries, reason)
        delay == BackoffDelay(retryCount)
        r == IF retry
             THEN [m EXCEPT !.nextConnect = _wifiman_connect(index, FALSE, delay),
                            !.retryCount = (retryCount + 1) % 256]
             ELSE IF autoConnect /\ reason # WIFI_REASON_ASSOC_LEAVE
             THEN CheckConnection([m EXCEPT !.cb = TRUE], FALSE, scanComplete, scanResults)
             ELSE [m EXCEPT !.cb = TRUE]
    IN  /\ wlConnected' = FALSE
        /\ Commit(r)
        /\ lastOp' = Op("disconnectedEvent", ssid, reason, index, retry,
                        IF retry THEN delay ELSE 0, r.cb, retryCount, r.ret)
        /\ streak' = IF ReasonCode(reason) # CONNECTION_FAILED \/ index >= length
                      THEN NoStreak
                      ELSE IF retryCount = 0 THEN [ssid |-> ssid, n |-> 1]
                      ELSE IF streak.ssid = ssid
                      THEN [streak EXCEPT !.n = IF @ > MaxRetryLimit THEN @ ELSE @ + 1]
                      ELSE NoStreak
        /\ UNCHANGED << scanComplete, scanResults >>

ScanLists ==
    UNION {[1..n -> [ssid : Names, rssi : RssiValues]] : n \in 0..MaxScan}

\* the radio finishes the scan the worker started; in autonomous mode the
\* scan-done handler runs
_wifiman_wifiScanDoneEvent(results) ==
    /\ scanComplete = WIFI_SCAN_RUNNING
    /\ scanResults' = results
    /\ scanComplete' = Len(results)
    /\ UNCHANGED wlConnected
    /\ LET r == IF autoConnect
                THEN CheckConnection([Mgr EXCEPT !.scanTime = now], wlConnected,
                                     Len(results), results)
                ELSE Mgr
       IN  /\ Commit(r)
           /\ lastOp' = Op("scanDoneEvent", Len(results), 0, 0, FALSE, 0, r.cb, retryCount, r.ret)
           /\ streak' = IF r.ret = WMRT_SUCCESS THEN NoStreak ELSE streak

(* ------------------------------ worker task ---------------------------- *)
\* if (! nextConnect.handled) { lock; priority rule; copy; unlock }
WorkerPullConnect ==
    /\ pc = "pullConnect"
    /\ IF ~nextConnect.handled /\ AcceptConnect(nextConnect, connect)
       THEN /\ connect' = nextConnect
            /\ nextConnect' = [nextConnect EXCEPT !.handled = TRUE]
       ELSE UNCHANGED << connect, nextConnect >>
    /\ pc' = "pullScan"
    /\ lastOp' = Op("workerPullConnect", 0, 0, 0, FALSE, 0, FALSE, retryCount, 0)
    /\ UNCHANGED << regVars, cfgVars, retryCount, scanTime, nextScan, taskNotify, scan,
                    notifyValue, radioVars, now, streak >>

WorkerPullScan ==
    /\ pc = "pullScan"
    /\ IF ~nextScan.handled
       THEN /\ scan' = nextScan
            /\ nextScan' = [nextScan EXCEPT !.handled = TRUE]
       ELSE UNCHANGED << scan, nextScan >>
    /\ pc' = "notifyWait"
    /\ lastOp' = Op("workerPullScan", 0, 0, 0, FALSE, 0, FALSE, retryCount, 0)
    /\ UNCHANGED << regVars, cfgVars, retryCount, scanTime, nextConnect, taskNotify,
                    connect, notifyValue, radioVars, now, streak >>

\* xTaskNotifyWait(0, 0, &notifyValue, 0) copies the task's notification value
WorkerNotifyWait ==
    /\ pc = "notifyWait"
    /\ notifyValue' = taskNotify
    /\ pc' = "execConnect"
    /\ lastOp' = Op("workerNotifyWait", 0, 0, 0, FALSE, 0, FALSE, retryCount, 0)
    /\ UNCHANGED << regVars, cfgVars, retryCount, scanTime, boxVars, connect, scan,
                    radioVars, now, streak >>

\* WiFi.disconnect(); WiFi.begin(ssid, pass) of entry connect.networkIndex
WorkerExecConnect ==
    /\ pc = "execConnect"
    /\ IF ~connect.handled /\ _time_now_or_passed(connect.execTime, now)
       THEN /\ connect' = [connect EXCEPT !.handled = TRUE]
            /\ wlConnected' = FALSE
            /\ lastOp' = Op("workerConnect", connect.networkIndex, 0, 0, FALSE, 0, FALSE,
                            retryCount, IF connect.issuedByUser THEN 1 ELSE 0)
       ELSE /\ UNCHANGED << connect, wlConnected >>
            /\ lastOp' = Op("workerNoConnect", 0, 0, 0, FALSE, 0, FALSE, retryCount, 0)
    /\ pc' = "execScan"
    /\ UNCHANGED << regVars, cfgVars, retryCount, scanTime, boxVars, scan, notifyValue,
                    scanComplete, scanResults, now, streak >>

\* the scan step, then delay(1) and the next cycle
WorkerExecScan ==
    /\ pc = "execScan"
    /\ IF (~scan.handled \/ notifyValue # 0) /\ _time_now_or_passed(scan.execTime, now)
       THEN /\ IF scanComplete # WIFI_SCAN_RUNNING
               THEN /\ scanResults' = << >>
                    /\ scanComplete' = WIFI_SCAN_RUNNING
               ELSE UNCHANGED << scanComplete, scanResults >>
            /\ scan' = [execTime |-> IF notifyValue # 0
                                     THEN U32Add(scan.execTime, U32(scanInterval))
                                     ELSE scan.execTime,
                        handled |-> TRUE]
            /\ lastOp' = Op("workerScan", 0, 0, 0, FALSE, 0, FALSE, retryCount, notifyValue)
       ELSE /\ UNCHANGED << scan, scanComplete, scanResults >>
            /\ lastOp' = Op("workerNoScan", 0, 0, 0, FALSE, 0, FALSE, retryCount, 0)
    /\ pc' = "pullConnect"
    /\ UNCHANGED << regVars, cfgVars, retryCount, scanTime, boxVars, connect, notifyValue,
                    wlConnected, now, streak >>

Worker ==
    \/ WorkerPullConnect
    \/ WorkerPullScan
    \/ WorkerNotifyWait
    \/ WorkerExecConnect
    \/ WorkerExecScan

(* --------------------------------- clock ------------------------------- *)
Elapsed == U32Sub(now, BootTime)

\* millis() advances
Tick ==
    /\ Elapsed[1] = 0
    /\ Elapsed[2] < MaxTicks * TickMs
    /\ now' = U32Add(now, U32(TickMs))
    /\ lastOp' = Op("tick", 0, 0, 0, FALSE, 0, FALSE, retryCount, 0)
    /\ UNCHANGED << regVars, cfgVars, retryCount, scanTime, boxVars, workerVars, radioVars, streak >>

(* ---------------------------- specifications -------------------------- *)
\* the registry API on a registry created empty, with connect requests moving
\* status.targetNetwork
NextRegistry ==
    \/ \E ssid \in Names \cup {EmptyStr, NullStr}, pass \in PassValues :
           wifiman_addOrUpdateNetwork(ssid, pass) /\ UNCHANGED lifeVars
    \/ \E index \in 0..MaxCapacity : wifiman_deleteNetwork(index) /\ UNCHANGED lifeVars
    \/ \E ssid \in Names \cup {EmptyStr} :
           wifiman_deleteNetworkByName(ssid) /\ UNCHANGED lifeVars
    \/ \E index \in 0..(MaxCapacity - 1) :
           wifiman_connectToNetwork(index) /\ UNCHANGED lifeVars

SpecRegistry == Init /\ [][NextRegistry]_vars

\* connect requests by index, radio events and the retry configuration
NextBackoff ==
    \/ \E index \in 0..(MaxCapacity - 1) :
           wifiman_connectToNetwork(index) /\ UNCHANGED lifeVars
    \/ \E count \in 0..MaxRetryLimit : wifiman_setRetryCount(count) /\ UNCHANGED lifeVars
    \/ \E ssid \in Names : _wifiman_wifiConnectedEvent(ssid) /\ UNCHANGED lifeVars
    \/ \E ssid \in Names, reason \in Reasons :
           _wifiman_wifiDisconnectedEvent(ssid, reason) /\ UNCHANGED lifeVars

SpecBackoff == InitKnown /\ [][NextBackoff]_vars

\* the state after a first wifiman_connectToBestWifi call found no scan, issued
\* the scan command and the worker started the scan: the scan is running
InitScanning ==
    /\ now = BootTime
    /\ capacity = MaxCapacity
    /\ networks \in {<< Entry(1) >>, << Entry(1), Entry(2) >>}
    /\ status \in [targetNetwork : {NoIndex}, code : {WM_IDLE_STATUS}, info : UninitByte]
    /\ autoConnect \in BOOLEAN
    /\ maxRetries = WM_RETRIES_DEFAULT
    /\ retryCount = 0
    /\ scanTime = now
    /\ scanInterval = WM_SCAN_INTERVAL_DEFAULT_MS
    /\ nextConnect = [execTime |-> U32(0), networkIndex |-> 0, issuedByUser |-> TRUE, handled |-> TRUE]
    /\ nextScan = [execTime |-> now, handled |-> TRUE]
    /\ connect = [execTime |-> U32(0), networkIndex |-> 0, issuedByUser |-> TRUE, handled |-> TRUE]
    /\ scan = [execTime |-> now, handled |-> TRUE]
    /\ notifyValue = 0
    /\ taskNotify = 0
    /\ pc = "pullConnect"
    /\ wlConnected = FALSE
    /\ scanComplete = WIFI_SCAN_RUNNING
    /\ scanResults = << >>
    /\ lastOp = Op("workerScan", 0, 0, 0, FALSE, 0, FALSE, 0, 0)
    /\ streak = NoStreak
    /\ service = "active"
    /\ pref = NoKeys
    /\ lastPeriodic = Never
    /\ mbox = NoTraffic

\* the selector on the results of that scan, with the radio events that give the
\* entries their history
NextSelect ==
    \/ \E results \in ScanLists : _wifiman_wifiScanDoneEvent(results) /\ UNCHANGED lifeVars
    \/ wifiman_connectToBestWifi /\ UNCHANGED lifeVars
    \/ \E ssid \in Names : _wifiman_wifiConnectedEvent(ssid) /\ UNCHANGED lifeVars
    \/ \E ssid \in Names :
           _wifiman_wifiDisconnectedEvent(ssid, WIFI_REASON_AUTH_FAIL) /\ UNCHANGED lifeVars

SpecSelect == InitScanning /\ [][NextSelect]_vars

\* the command channel: connect requests, disconnect events, the worker task
\* and the clock, without autonomous mode
InitChannel == InitKnown /\ ~autoConnect

Next ==
    \/ \E index \in 0..(MaxCapacity - 1) :
           wifiman_connectToNetwork(index) /\ UNCHANGED lifeVars
    \/ \E ssid \in Names, reason \in {WIFI_REASON_ASSOC_LEAVE, WIFI_REASON_AUTH_FAIL} :
           _wifiman_wifiDisconnectedEvent(ssid, reason) /\ UNCHANGED lifeVars
    \/ Worker /\ UNCHANGED lifeVars
    \/ Tick /\ UNCHANGED lifeVars

Spec == InitChannel /\ [][Next]_vars

\* autonomous mode with retries disabled (wifiman_setRetryCount(0)) and a scan
\* interval of a quarter of the clock's range, so that the clock has four
\* positions and time can pass without end
LongInterval == Half * (Half \div 4)

InitAuto ==
    /\ capacity = MaxCapacity
    /\ networks \in {<< Entry(1) >>, << Entry(1), Entry(2) >>}
    /\ status \in [targetNetwork : {NoIndex}, code : {WM_IDLE_STATUS}, info : UninitByte]
    /\ autoConnect = TRUE
    /\ maxRetries = 0
    /\ retryCount = 0
    /\ scanTime = U32(0)
    /\ scanInterval = LongInterval
    /\ nextConnect = [execTime |-> U32(0), networkIndex |-> 0, issuedByUser |-> TRUE, handled |-> TRUE]
    /\ nextScan = [execTime |-> U32(0), handled |-> TRUE]
    /\ connect = [execTime |-> U32(0), networkIndex |-> 0, issuedByUser |-> TRUE, handled |-> TRUE]
    /\ scan = [execTime |-> U32(0), handled |-> TRUE]
    /\ notifyValue = 0
    /\ taskNotify = 0
    /\ pc = "pullConnect"
    /\ wlConnected = FALSE
    /\ scanComplete = WIFI_SCAN_NOT_STARTED
    /\ scanResults = << >>
    /\ now = BootTime
    /\ lastOp = NoOp
    /\ streak = NoStreak
    /\ service = "started"
    /\ pref = NoKeys
    /\ lastPeriodic = Never
    /\ mbox = NoTraffic

\* the first connect request of the application
AutoRequest ==
    /\ service = "started"
    /\ \/ wifiman_connectToBestWifi
       \/ wifiman_connectToNetwork(0)
    /\ service' = "active"
    /\ UNCHANGED << pref, lastPeriodic, mbox >>

\* a worker step; a scan it starts on the periodic notification is recorded
AutoWorker ==
    /\ Worker
    /\ lastPeriodic' = IF /\ lastOp'.op = "workerScan"
                          /\ lastOp'.aux # 0
                          /\ scanComplete # WIFI_SCAN_RUNNING
                       THEN now
                       ELSE lastPeriodic
    /\ UNCHANGED << service, pref, mbox >>

\* the radio's answer to the WiFi.begin the worker just called: the connection
\* is made, or it fails for a reason that is no deliberate leave
RadioAnswer ==
    /\ lastOp.op = "workerConnect"
    /\ lastOp.arg < length
    /\ \/ _wifiman_wifiConnectedEvent(networks[lastOp.arg + 1].ssid)
       \/ \E reason \in {WIFI_REASON_AUTH_FAIL, WIFI_REASON_NO_AP_FOUND} :
              _wifiman_wifiDisconnectedEvent(networks[lastOp.arg + 1].ssid, reason)
    /\ UNCHANGED lifeVars

\* the connection that was made is lost
RadioLost ==
    /\ wlConnected
    /\ status.targetNetwork < length
    /\ _wifiman_wifiDisconnectedEvent(networks[status.targetNetwork + 1].ssid,
                                      WIFI_REASON_AUTH_FAIL)
    /\ UNCHANGED lifeVars

\* the scans while the first registry network stays in range
InRange ==
    {<< [ssid |-> 1, rssi |-> -40] >>,
     << [ssid |-> 3, rssi |-> -40], [ssid |-> 1, rssi |-> -70] >>}

RadioScanDone ==
    /\ \E results \in InRange : _wifiman_wifiScanDoneEvent(results)
    /\ UNCHANGED lifeVars

\* something is left for the worker or the radio to do at the present time; the
\* worker polls every millisecond, so it is done before the clock moves on
Due ==
    \/ ~nextConnect.handled
    \/ ~nextScan.handled
    \/ notifyValue # taskNotify
    \/ ~connect.handled /\ _time_now_or_passed(connect.execTime, now)
    \/ (~scan.handled \/ notifyValue # 0) /\ _time_now_or_passed(scan.execTime, now)
    \/ scanComplete = WIFI_SCAN_RUNNING
    \/ lastOp.op = "workerConnect"

\* a scan interval passes
LongTick ==
    /\ ~Due
    /\ now' = U32Add(now, U32(LongInterval))
    /\ lastOp' = Op("tick", 0, 0, 0, FALSE, 0, FALSE, retryCount, 0)
    /\ UNCHANGED << regVars, cfgVars, retryCount, scanTime, boxVars, workerVars, radioVars,
                    streak, lifeVars >>

NextAuto ==
    \/ AutoRequest
    \/ AutoWorker
    \/ RadioAnswer
    \/ RadioLost
    \/ RadioScanDone
    \/ LongTick

\* the worker task is scheduled, scans end and time passes
SpecAuto ==
    /\ InitAuto
    /\ [][NextAuto]_vars
    /\ WF_vars(AutoWorker)
    /\ WF_vars(RadioScanDone)
    /\ WF_vars(LongTick)

(* --------------------------- persistent store -------------------------- *)
\* count == (uint8_t)-1 stands for "to the end"
AllSlots == NoIndex

RECURSIVE SaveFrom(_, _, _, _, _)
\* the loop of wifiman_saveToEEPROM from slot i: the store it leaves
SaveFrom(p, nets, cap, i, end) ==
    IF i >= end \/ i >= cap THEN p
    ELSE IF i < Len(nets)
    THEN SaveFrom([ssid |-> [p.ssid EXCEPT ![i] = nets[i + 1].ssid],
                   pass |-> IF nets[i + 1].pass # NullStr
                            THEN [p.pass EXCEPT ![i] = nets[i + 1].pass]
                            ELSE p.pass,
                   state |-> [p.state EXCEPT ![i] = nets[i + 1].state]],
                  nets, cap, i + 1, end)
    ELSE IF p.ssid[i] = NoKey THEN p
    ELSE SaveFrom([ssid |-> [p.ssid EXCEPT ![i] = NoKey],
                   pass |-> [p.pass EXCEPT ![i] = NoKey],
                   state |-> [p.state EXCEPT ![i] = NoKey]],
                  nets, cap, i + 1, end)

\* the entry wifiman_readFromEEPROM builds from slot i
StoredEntry(p, i) ==
    [ssid |-> p.ssid[i],
     pass |-> IF p.pass[i] \in {NoKey, EmptyStr} THEN NullStr ELSE p.pass[i],
     state |-> IF p.state[i] = NoKey THEN 0 ELSE p.state[i]]

RECURSIVE ReadFrom(_, _, _, _, _)
\* the loop of wifiman_readFromEEPROM from slot i: the registry it leaves
ReadFrom(nets, p, cap, i, end) ==
    IF i >= end \/ i >= cap THEN nets
    ELSE IF p.ssid[i] = NoKey THEN nets
    ELSE ReadFrom(IF i < Len(nets)
                  THEN [nets EXCEPT ![i + 1] = StoredEntry(p, i)]
                  ELSE Append(nets, StoredEntry(p, i)),
                  p, cap, i + 1, end)

wifiman_saveToEEPROM(startIndex, count) ==
    /\ startIndex < capacity
    /\ pref' = IF count = 0 THEN pref
               ELSE SaveFrom(pref, networks, capacity, startIndex,
                             IF count = AllSlots THEN capacity ELSE startIndex + count)
    /\ lastOp' = Op("saveToEEPROM", startIndex, 0, 0, FALSE, 0, FALSE, retryCount, count)
    /\ UNCHANGED << regVars, cfgVars, retryCount, scanTime, boxVars, workerVars, radioVars,
                    now, streak, service, lastPeriodic, mbox >>

\* called with startIndex <= length, so that the entries read stay contiguous
wifiman_readFromEEPROM(startIndex, count) ==
    /\ startIndex <= length
    /\ networks' = ReadFrom(networks, pref, capacity, startIndex, startIndex + count)
    /\ lastOp' = Op("readFromEEPROM", startIndex, 0,
                    Cardinality({i \in Slots : /\ i >= startIndex
                                               /\ i < startIndex + count
                                               /\ i < capacity
                                               /\ \A j \in startIndex..i : pref.ssid[j] # NoKey}),
                    FALSE, 0, FALSE, retryCount, count)
    /\ streak' = NoStreak
    /\ UNCHANGED << capacity, status, cfgVars, retryCount, scanTime, boxVars, workerVars,
                    radioVars, now, service, pref, lastPeriodic, mbox >>

\* the index ranges saved and read
Counts == (1..MaxCapacity) \cup {AllSlots}

\* the registry and its persistent copy
NextStore ==
    \/ \E ssid \in {1, 2}, pass \in PassValues :
           wifiman_addOrUpdateNetwork(ssid, pass) /\ UNCHANGED lifeVars
    \/ \E index \in Slots : wifiman_deleteNetwork(index) /\ UNCHANGED lifeVars
    \/ \E ssid \in {1, 2} : _wifiman_wifiConnectedEvent(ssid) /\ UNCHANGED lifeVars
    \/ \E startIndex \in Slots, count \in Counts : wifiman_saveToEEPROM(startIndex, count)
    \/ \E startIndex \in Slots, count \in Counts : wifiman_readFromEEPROM(startIndex, count)

InitStore == Init /\ capacity = MaxCapacity /\ ~autoConnect

SpecStore == InitStore /\ [][NextStore]_vars

\* clock values at the ends and in the middle of the 32-bit range
ClockValues ==
    {<< 0, 0 >>, << 0, 1 >>, << 0, BackoffBaseMs >>,
     << Half \div 2 - 1, Half - 1 >>, << Half \div 2, 0 >>, << Half \div 2, 1 >>,
     << Half - 1, Half - BackoffBaseMs >>, << Half - 1, Half - 1 >>}

\* the worker at its connect step with a command it accepted earlier, the clock
\* and the command's deadline anywhere in the range
InitDeadline ==
    /\ capacity = MaxCapacity
    /\ networks = << Entry(1) >>
    /\ status = [targetNetwork |-> 0, code |-> CONNECTING, info |-> 0]
    /\ autoConnect = FALSE
    /\ maxRetries = WM_RETRIES_DEFAULT
    /\ retryCount = 0
    /\ scanTime = U32(0)
    /\ scanInterval = WM_SCAN_INTERVAL_DEFAULT_MS
    /\ now \in ClockValues
    /\ nextConnect = [execTime |-> U32(0), networkIndex |-> 0, issuedByUser |-> TRUE, handled |-> TRUE]
    /\ nextScan = [execTime |-> U32(0), handled |-> TRUE]
    /\ connect \in [execTime : ClockValues, networkIndex : {0}, issuedByUser : BOOLEAN,
                    handled : {FALSE}]
    /\ scan = [execTime |-> U32(0), handled |-> TRUE]
    /\ notifyValue = 0
    /\ taskNotify = 0
    /\ pc = "execConnect"
    /\ wlConnected = FALSE
    /\ scanComplete = WIFI_SCAN_NOT_STARTED
    /\ scanResults = << >>
    /\ lastOp = Op("workerNotifyWait", 0, 0, 0, FALSE, 0, FALSE, 0, 0)
    /\ streak = NoStreak
    /\ service = "active"
    /\ pref = NoKeys
    /\ lastPeriodic = Never
    /\ mbox = NoTraffic

\* the worker polls while the clock stands; new commands are issued with delay
\* 0 (manual request) and with the backoff delays (retries)
NextDeadline ==
    \/ Worker /\ UNCHANGED lifeVars
    \/ wifiman_connectToNetwork(0) /\ UNCHANGED lifeVars
    \/ _wifiman_wifiDisconnectedEvent(1, WIFI_REASON_AUTH_FAIL) /\ UNCHANGED lifeVars

SpecDeadline == InitDeadline /\ [][NextDeadline]_vars

(* ------------------------------ life cycle ----------------------------- *)
\* the locals of a worker task that was just created
FreshCommand == [execTime |-> U32(0), networkIndex |-> 0, issuedByUser |-> TRUE, handled |-> TRUE]

\* wifiman_stop: the handlers are removed, the worker task is deleted in
\* autonomous mode only, the mailbox locks are deleted, _wifiman_data = nullptr
wifiman_stop ==
    /\ service # "stopped"
    /\ service' = "stopped"
    /\ pc' = IF autoConnect THEN "deleted" ELSE pc
    /\ lastOp' = Op("stop", 0, 0, 0, FALSE, 0, FALSE, retryCount, 0)
    /\ UNCHANGED << regVars, cfgVars, retryCount, scanTime, boxVars, connect, scan,
                    notifyValue, radioVars, now, streak, pref, lastPeriodic, mbox >>

\* wifiman_start after a stop, in the same mode: both mailboxes are marked
\* consumed and a worker task is created; a task that the stop left running
\* keeps its locals and goes on (the task created beside it starts with
\* consumed locals and is not followed)
wifiman_start ==
    /\ service = "stopped"
    /\ pc # "crashed"
    /\ service' = "started"
    /\ nextConnect' = [nextConnect EXCEPT !.handled = TRUE]
    /\ nextScan' = [nextScan EXCEPT !.handled = TRUE]
    /\ IF pc = "deleted"
       THEN /\ connect' = FreshCommand
            /\ scan' = [execTime |-> U32(0), handled |-> TRUE]
            /\ notifyValue' = 0
            /\ taskNotify' = 0
            /\ pc' = "pullConnect"
       ELSE UNCHANGED << connect, scan, notifyValue, taskNotify, pc >>
    /\ lastOp' = Op("start", 0, 0, 0, FALSE, 0, FALSE, retryCount, 0)
    /\ UNCHANGED << regVars, cfgVars, retryCount, scanTime, radioVars, now, streak,
                    pref, lastPeriodic, mbox >>

\* a step in which a worker task left running by wifiman_stop takes a deleted
\* lock or reads through _wifiman_data = nullptr
Hazard ==
    \/ pc = "pullConnect" /\ ~nextConnect.handled
    \/ pc = "pullScan" /\ ~nextScan.handled
    \/ pc = "execConnect" /\ ~connect.handled /\ _time_now_or_passed(connect.execTime, now)

\* the worker task while the service runs; after a stop that did not delete it
\* it goes on, and a step with undefined behaviour either goes through or
\* ends the task
LifeWorker ==
    \/ /\ Worker
       /\ UNCHANGED lifeVars
    \/ /\ service = "stopped"
       /\ Hazard
       /\ pc' = "crashed"
       /\ lastOp' = Op("workerCrash", 0, 0, 0, FALSE, 0, FALSE, retryCount, 0)
       /\ UNCHANGED << regVars, cfgVars, retryCount, scanTime, boxVars, connect, scan,
                       notifyValue, radioVars, now, streak, lifeVars >>

\* a connect request of the application while the service runs
LifeRequest ==
    /\ service # "stopped"
    /\ wifiman_connectToNetwork(0)
    /\ service' = "active"
    /\ UNCHANGED << pref, lastPeriodic, mbox >>

\* a radio event delivered to the registered handlers
LifeEvent ==
    /\ service # "stopped"
    /\ \/ _wifiman_wifiDisconnectedEvent(1, WIFI_REASON_AUTH_FAIL)
       \/ _wifiman_wifiConnectedEvent(1)
    /\ service' = "active"
    /\ UNCHANGED << pref, lastPeriodic, mbox >>

InitLifecycle ==
    /\ capacity = MaxCapacity
    /\ networks = << Entry(1) >>
    /\ InitManager

NextLifecycle ==
    \/ wifiman_stop
    \/ wifiman_start
    \/ LifeWorker
    \/ LifeRequest
    \/ LifeEvent
    \/ Tick /\ UNCHANGED lifeVars

SpecLifecycle == InitLifecycle /\ [][NextLifecycle]_vars

(* --------------------------- periodic scanning ------------------------- *)
\* the clock step and the time followed for periodic scanning
PeriodStepMs == WM_SCAN_INTERVAL_DEFAULT_MS \div 3
PeriodHorizonMs == 4 * WM_SCAN_INTERVAL_DEFAULT_MS

\* autonomous mode with the default scan interval
InitPeriodic ==
    /\ capacity = MaxCapacity
    /\ networks \in {<< Entry(1) >>, << Entry(1), Entry(2) >>}
    /\ InitManager
    /\ autoConnect

\* a scan ends with the first registry network in range or with no network
PeriodScanDone ==
    /\ \E results \in InRange \cup {<< >>} : _wifiman_wifiScanDoneEvent(results)
    /\ UNCHANGED lifeVars

\* a third of the scan interval passes, after the worker and the radio have
\* done what is due
PeriodTick ==
    /\ ~Due
    /\ Elapsed[1] = 0
    /\ Elapsed[2] < PeriodHorizonMs
    /\ now' = U32Add(now, U32(PeriodStepMs))
    /\ lastOp' = Op("tick", 0, 0, 0, FALSE, 0, FALSE, retryCount, 0)
    /\ UNCHANGED << regVars, cfgVars, retryCount, scanTime, boxVars, workerVars, radioVars,
                    streak, lifeVars >>

NextPeriodic ==
    \/ AutoRequest
    \/ wifiman_setRetryCount(0) /\ UNCHANGED lifeVars
    \/ AutoWorker
    \/ RadioAnswer
    \/ RadioLost
    \/ PeriodScanDone
    \/ PeriodTick

SpecPeriodic == InitPeriodic /\ [][NextPeriodic]_vars

(* ----------------------- deletion and the channel ---------------------- *)
\* the worker's connect step would read networks[connect.networkIndex] of an
\* index that is no entry: the slot is nullptr after a deletion
StaleIndex ==
    /\ pc = "execConnect"
    /\ ~connect.handled
    /\ _time_now_or_passed(connect.execTime, now)
    /\ connect.networkIndex >= length

\* the worker task beside deletions; the read through a nullptr slot either
\* goes through or ends the task
DeleteWorker ==
    \/ /\ Worker
       /\ UNCHANGED lifeVars
    \/ /\ StaleIndex
       /\ pc' = "crashed"
       /\ lastOp' = Op("workerCrash", connect.networkIndex, 0, 0, FALSE, 0, FALSE, retryCount, 0)
       /\ UNCHANGED << regVars, cfgVars, retryCount, scanTime, boxVars, connect, scan,
                       notifyValue, radioVars, now, streak, lifeVars >>

\* connect requests, retries, the worker and the clock, with entries deleted
\* while commands are pending
NextDelete ==
    \/ \E index \in Slots : wifiman_connectToNetwork(index) /\ UNCHANGED lifeVars
    \/ \E index \in Slots : wifiman_deleteNetwork(index) /\ UNCHANGED lifeVars
    \/ \E ssid \in {1, 2} :
           _wifiman_wifiDisconnectedEvent(ssid, WIFI_REASON_AUTH_FAIL) /\ UNCHANGED lifeVars
    \/ DeleteWorker
    \/ Tick /\ UNCHANGED lifeVars

SpecDelete == InitChannel /\ [][NextDelete]_vars

(* ------------------- the connect mailbox, step by step ------------------ *)
\* a task that ignores the mutex (the whole-command copy depends on the lock)
TakesAnyway(lock) == TRUE

\* xSemaphoreTake(nextConnect.lock, portMAX_DELAY) returns when the mutex is free
CanTake(lock) == lock = "free"

CmdOf(who) == IF who = "app" THEN "appCmd" ELSE "evCmd"
IdOf(who) == IF who = "app" THEN "appId" ELSE "evId"

MailOp(name, arg) == Op(name, arg, 0, 0, FALSE, 0, FALSE, retryCount, 0)

\* what a mailbox step leaves alone, the slot, the local copy and pc apart
MailFrame ==
    UNCHANGED << regVars, cfgVars, retryCount, scanTime, nextScan, taskNotify, scan,
                 notifyValue, radioVars, now, streak, service, pref, lastPeriodic >>

\* a task calls _wifiman_connect(index, byUser, delay): the application task
\* with a user command, the event task with a retry
ProducerEnter(who, index) ==
    /\ mbox[who] = "idle"
    /\ mbox.issued < MaxIssues
    /\ index < length
    /\ mbox' = [mbox EXCEPT ![who] = "take",
                            ![CmdOf(who)] = [execTime |-> << 0, 0 >>, networkIndex |-> index,
                                             issuedByUser |-> (who = "app")],
                            ![IdOf(who)] = mbox.issued + 1,
                            !.issued = @ + 1,
                            !.log = Append(@, [execTime |-> << 0, 0 >>, networkIndex |-> index,
                                               issuedByUser |-> (who = "app")])]
    /\ lastOp' = MailOp("issueConnect", index)
    /\ UNCHANGED << nextConnect, connect, pc >>
    /\ MailFrame

\* the body of _wifiman_connect, one statement per step
ProducerStep(who) ==
    LET id == mbox[IdOf(who)]
        cmd == mbox[CmdOf(who)]
        due == U32Add(now, U32(IF who = "app" THEN 0 ELSE BackoffDelay(0)))
    IN
    /\ \/ /\ mbox[who] = "take"
          /\ CanTake(mbox.lock)
          /\ mbox' = [mbox EXCEPT ![who] = "w1", !.lock = who]
          /\ UNCHANGED nextConnect
       \/ /\ mbox[who] = "w1"
          /\ nextConnect' = [nextConnect EXCEPT !.execTime = due]
          /\ mbox' = [mbox EXCEPT ![who] = "w2", !.tagNext[1] = id, !.log[id].execTime = due]
       \/ /\ mbox[who] = "w2"
          /\ nextConnect' = [nextConnect EXCEPT !.networkIndex = cmd.networkIndex]
          /\ mbox' = [mbox EXCEPT ![who] = "w3", !.tagNext[2] = id]
       \/ /\ mbox[who] = "w3"
          /\ nextConnect' = [nextConnect EXCEPT !.issuedByUser = cmd.issuedByUser]
          /\ mbox' = [mbox EXCEPT ![who] = "w4", !.tagNext[3] = id]
       \/ /\ mbox[who] = "w4"
          /\ nextConnect' = [nextConnect EXCEPT !.handled = FALSE]
          /\ mbox' = [mbox EXCEPT ![who] = "give"]
       \/ /\ mbox[who] = "give"
          /\ mbox' = [mbox EXCEPT ![who] = "idle", !.lock = "free"]
          /\ UNCHANGED nextConnect
    /\ lastOp' = MailOp("issueStep", id)
    /\ UNCHANGED << connect, pc >>
    /\ MailFrame

\* the worker's pull of the connect command, one statement per step: the test
\* of handled outside the lock, the take, the priority rule, the copy of the
\* struct field by field, the mark and the give
FinePull ==
    /\ \/ /\ pc = "pullConnect"
          /\ pc' = IF nextConnect.handled THEN "pullScan" ELSE "lockConnect"
          /\ UNCHANGED << nextConnect, connect, mbox >>
       \/ /\ pc = "lockConnect"
          /\ CanTake(mbox.lock)
          /\ mbox' = [mbox EXCEPT !.lock = "worker"]
          /\ pc' = "ruleConnect"
          /\ UNCHANGED << nextConnect, connect >>
       \/ /\ pc = "ruleConnect"
          /\ pc' = IF AcceptConnect(nextConnect, connect) THEN "copy1" ELSE "giveConnect"
          /\ UNCHANGED << nextConnect, connect, mbox >>
       \/ /\ pc = "copy1"
          /\ connect' = [connect EXCEPT !.execTime = nextConnect.execTime]
          /\ mbox' = [mbox EXCEPT !.tagLocal[1] = mbox.tagNext[1]]
          /\ pc' = "copy2"
          /\ UNCHANGED nextConnect
       \/ /\ pc = "copy2"
          /\ connect' = [connect EXCEPT !.networkIndex = nextConnect.networkIndex]
          /\ mbox' = [mbox EXCEPT !.tagLocal[2] = mbox.tagNext[2]]
          /\ pc' = "copy3"
          /\ UNCHANGED nextConnect
       \/ /\ pc = "copy3"
          /\ connect' = [connect EXCEPT !.issuedByUser = nextConnect.issuedByUser]
          /\ mbox' = [mbox EXCEPT !.tagLocal[3] = mbox.tagNext[3]]
          /\ pc' = "copy4"
          /\ UNCHANGED nextConnect
       \/ /\ pc = "copy4"
          /\ connect' = [connect EXCEPT !.handled = nextConnect.handled]
          /\ pc' = "markConnect"
          /\ UNCHANGED << nextConnect, mbox >>
       \/ /\ pc = "markConnect"
          /\ nextConnect' = [nextConnect EXCEPT !.handled = TRUE]
          /\ pc' = "giveConnect"
          /\ UNCHANGED << connect, mbox >>
       \/ /\ pc = "giveConnect"
          /\ mbox' = [mbox EXCEPT !.lock = "free"]
          /\ pc' = "pullScan"
          /\ UNCHANGED << nextConnect, connect >>
    /\ lastOp' = MailOp("workerPullStep", 0)
    /\ MailFrame

\* the rest of the worker's cycle, with the clock standing
RestOfCycle ==
    /\ WorkerPullScan \/ WorkerNotifyWait \/ WorkerExecConnect \/ WorkerExecScan
    /\ UNCHANGED lifeVars

InitMailbox ==
    /\ capacity = MaxCapacity
    /\ networks = << Entry(1), Entry(2) >>
    /\ InitManager
    /\ ~autoConnect

NextMailbox ==
    \/ \E who \in {"app", "ev"}, index \in Slots : ProducerEnter(who, index)
    \/ \E who \in {"app", "ev"} : ProducerStep(who)
    \/ FinePull
    \/ RestOfCycle

SpecMailbox == InitMailbox /\ [][NextMailbox]_vars

(* ------------------------ resume and pause ----------------------------- *)
\* a disconnect event for a network that is not in the registry
StrayDisconnect ==
    /\ _wifiman_wifiDisconnectedEvent(3, WIFI_REASON_AUTH_FAIL)
    /\ UNCHANGED lifeVars

\* autonomous mode with the clock standing: the first request, the worker, the
\* radio's answers, the scans and stray disconnect events
NextResume ==
    \/ AutoRequest
    \/ AutoWorker
    \/ RadioAnswer
    \/ RadioLost
    \/ PeriodScanDone
    \/ StrayDisconnect

SpecResume == InitPeriodic /\ [][NextResume]_vars

(* ----------------------- long runs of retries -------------------------- *)
\* the largest value of the uint8_t retry limit and retry counter
RetryLimitMax == 255

\* the retry limit set to none or to the largest value, and the radio events
\* for the registered networks: runs of up to RetryLimitMax retries
NextJoined ==
    \/ \E count \in {0, RetryLimitMax} : wifiman_setRetryCount(count) /\ UNCHANGED lifeVars
    \/ \E ssid \in {1, 2} : _wifiman_wifiConnectedEvent(ssid) /\ UNCHANGED lifeVars
    \/ \E ssid \in {1, 2} :
           _wifiman_wifiDisconnectedEvent(ssid, WIFI_REASON_AUTH_FAIL) /\ UNCHANGED lifeVars

SpecJoined == InitKnown /\ [][NextJoined]_vars

(* --------------------------- wifiman_create ---------------------------- *)
\* a slot of the caller's list that holds nullptr
NullSlot == [ssid |-> NullStr, pass |-> NullStr, state |-> NETWORK_STATE_UNKNOWN]
\* what a slot of a list built by the caller can hold
SlotValues ==
    {NullSlot} \cup
    [ssid : Names, pass : {NullStr},
     state : {NETWORK_STATE_UNKNOWN, NETWORK_FAILED_BEFORE, NETWORK_WORKED_BEFORE}]
\* memory past the end of the list
Wild == [ssid |-> EmptyStr, pass |-> NullStr, state |-> NETWORK_STATE_UNKNOWN]
\* wifiman_create returned nullptr
NoRegistry == -1

\* the arguments of wifiman_create: no list (nullptr) or a list of `capacity`
\* slots with any fill pattern; capacity 0..MaxCapacity and the reserved 255,
\* for which the list is empty, full, or has one leading entry
CreateInputs ==
    [networkList : {<< >>}, capacity : (0..MaxCapacity) \cup {NoIndex}, given : {FALSE}]
    \cup { [networkList |-> l, capacity |-> Len(l), given |-> TRUE] :
              l \in UNION { [1..c -> SlotValues] : c \in 0..MaxCapacity } }
    \cup { [networkList |-> [i \in 1..NoIndex |-> IF i <= n THEN Entry(1) ELSE NullSlot],
            capacity |-> NoIndex, given |-> TRUE] : n \in {0, 1, NoIndex} }

\* the loop of wifiman_create over a given list: length is assigned at the first
\* slot that holds nullptr; when no slot does, length is never assigned and keeps
\* what malloc left there
CreatedLength(networkList, cap) ==
    LET nulls == {i \in 1..cap : networkList[i] = NullSlot}
    IN  IF nulls = {}
        THEN UninitByte \cup {cap}
        ELSE {(CHOOSE i \in nulls : \A j \in nulls : i <= j) - 1}

\* the entries the registry holds for a length field: slots 0..len-1 of the list
RegistryView(networkList, cap, len) ==
    [i \in 1..len |-> IF i <= cap THEN networkList[i] ELSE Wild]

wifiman_create ==
    /\ lastOp.op = "caller"
    /\ LET in == lastOp.arg
       IN  \/ /\ in.capacity = 0 \/ in.capacity = NoIndex
              /\ lastOp' = Op("create", in, 0, NoRegistry, FALSE, 0, FALSE, 0, 0)
              /\ UNCHANGED << regVars, service >>
           \/ /\ in.capacity # 0 /\ in.capacity # NoIndex
              /\ \E len \in IF in.given THEN CreatedLength(in.networkList, in.capacity) ELSE {0} :
                    /\ networks' = RegistryView(in.networkList, in.capacity, len)
                    /\ lastOp' = Op("create", in, 0, len, FALSE, 0, FALSE, 0, 0)
              /\ capacity' = in.capacity
              /\ \E info \in UninitByte :
                    status' = [targetNetwork |-> NoIndex, code |-> WM_IDLE_STATUS, info |-> info]
              /\ service' = "created"
    /\ UNCHANGED << cfgVars, retryCount, scanTime, boxVars, workerVars, wlConnected,
                    scanComplete, scanResults, now, streak, pref, lastPeriodic, mbox >>

\* before wifiman_create: the file's statics hold their initialisers, there is no
\* registry, and the caller has prepared the arguments
InitCreate ==
    /\ networks = << >> /\ capacity = 0
    /\ status = [targetNetwork |-> NoIndex, code |-> WM_IDLE_STATUS, info |-> 0]
    /\ autoConnect = FALSE
    /\ maxRetries = WM_RETRIES_DEFAULT
    /\ retryCount = 0
    /\ scanTime = U32(0)
    /\ scanInterval = WM_SCAN_INTERVAL_DEFAULT_MS
    /\ nextConnect = [execTime |-> U32(0), networkIndex |-> 0, issuedByUser |-> TRUE, handled |-> TRUE]
    /\ nextScan = [execTime |-> U32(0), handled |-> TRUE]
    /\ connect = [execTime |-> U32(0), networkIndex |-> 0, issuedByUser |-> TRUE, handled |-> TRUE]
    /\ scan = [execTime |-> U32(0), handled |-> TRUE]
    /\ notifyValue = 0
    /\ taskNotify = 0
    /\ pc = "pullConnect"
    /\ wlConnected = FALSE
    /\ scanComplete = WIFI_SCAN_NOT_STARTED
    /\ scanResults = << >>
    /\ now = BootTime
    /\ \E in \in CreateInputs : lastOp = Op("caller", in, 0, 0, FALSE, 0, FALSE, 0, 0)
    /\ streak = NoStreak
    /\ service = "uncreated"
    /\ pref = NoKeys
    /\ lastPeriodic = Never
    /\ mbox = NoTraffic

NextCreate == wifiman_create

SpecCreate == InitCreate /\ [][NextCreate]_vars

(* ------------------- registry changes and radio events ----------------- *)
\* every operation that writes status.targetNetwork or changes length: add,
\* update, delete by index and by name, connect requests by index, and the
\* connected and disconnected events, for registered and unregistered names
NextTarget ==
    \/ \E ssid \in {1, 2}, pass \in {NullStr, 1} :
           wifiman_addOrUpdateNetwork(ssid, pass) /\ UNCHANGED lifeVars
    \/ \E index \in 0..MaxCapacity : wifiman_deleteNetwork(index) /\ UNCHANGED lifeVars
    \/ \E ssid \in {1, 2} : wifiman_deleteNetworkByName(ssid) /\ UNCHANGED lifeVars
    \/ \E index \in Slots : wifiman_connectToNetwork(index) /\ UNCHANGED lifeVars
    \/ \E ssid \in {1, 2} : _wifiman_wifiConnectedEvent(ssid) /\ UNCHANGED lifeVars
    \/ \E ssid \in {1, 2}, reason \in {WIFI_REASON_ASSOC_LEAVE, WIFI_REASON_AUTH_FAIL} :
           _wifiman_wifiDisconnectedEvent(ssid, reason) /\ UNCHANGED lifeVars

SpecTarget == Init /\ [][NextTarget]_vars

(* -------------------------------- claims ------------------------------- *)
\* C1: a manual connect command that the worker has not executed yet is never
\* replaced by an automatic retry command, neither in the shared connect
\* mailbox nor in the worker's local copy.
C1_ManualNeverOverwritten ==
    [][/\ (~nextConnect.handled /\ nextConnect.issuedByUser) => nextConnect'.issuedByUser
       /\ (~connect.handled /\ connect.issuedByUser) => connect'.issuedByUser]_vars

\* C2: the SSIDs of the entries are pairwise distinct and length <= capacity.
C2_UniqueAndBounded ==
    /\ \A i, j \in 1..length : networks[i].ssid = networks[j].ssid => i = j
    /\ length <= capacity

C2_Witness ==
    /\ lastOp.op = "addOrUpdateNetwork"
    /\ lastOp.arg \in Names
    /\ lastOp.ret = NoIndex
    /\ length = capacity
    /\ capacity = MaxCapacity

\* C3: deleteNetwork(i) with i < length removes exactly entry i: entries below i
\* keep their index, entries above i move down by one, length decreases by one,
\* and status.targetNetwork is cleared if it was i, decremented if it was above
\* i and not the sentinel, and unchanged otherwise.
C3_DeleteFrame ==
    [][(lastOp'.op = "deleteNetwork" /\ lastOp'.arg < Len(networks)) =>
          LET i == lastOp'.arg
              t == status.targetNetwork
          IN  /\ Len(networks') = Len(networks) - 1
              /\ \A j \in 0..(Len(networks) - 1) :
                    /\ j < i => networks'[j + 1] = networks[j + 1]
                    /\ j > i => networks'[j] = networks[j + 1]
              /\ t = i => status'.targetNetwork = NoIndex
              /\ (t > i /\ t # NoIndex) => status'.targetNetwork = t - 1
              /\ (t < i \/ t = NoIndex) => status'.targetNetwork = t
              /\ lastOp'.ret = i]_vars

C3_Witness ==
    /\ lastOp.op = "deleteNetwork"
    /\ lastOp.ret = 0
    /\ lastOp.aux = 1
    /\ status.targetNetwork = 0
    /\ length >= 1

IsLeave(reason) == reason \in {WIFI_REASON_ASSOC_LEAVE, WIFI_REASON_AUTH_LEAVE}

\* C4: a disconnect event with a deliberate-leave reason (ASSOC_LEAVE or
\* AUTH_LEAVE) sets status to Disconnected and schedules no automatic retry.
C4_LeaveNeverRetried ==
    (lastOp.op = "disconnectedEvent" /\ IsLeave(lastOp.reason)) =>
        /\ ~lastOp.retried
        /\ status.code = DISCONNECTED \/ lastOp.aux = WMRT_SUCCESS

\* C5: the retry scheduled at RetryCounter = k has delay min(8000, 1000 * 2^k)
\* ms, that is 1000, 2000, 4000, 8000, 8000, ..., and increments RetryCounter
\* by exactly one.
C5_BackoffSequence ==
    (lastOp.op = "disconnectedEvent" /\ lastOp.retried) =>
        /\ lastOp.delay = (CASE lastOp.rc0 = 0 -> 1000
                             [] lastOp.rc0 = 1 -> 2000
                             [] lastOp.rc0 = 2 -> 4000
                             [] OTHER -> 8000)
        /\ retryCount = lastOp.rc0 + 1
        /\ nextConnect = [execTime |-> U32Add(now, U32(lastOp.delay)),
                          networkIndex |-> lastOp.ret,
                          issuedByUser |-> FALSE, handled |-> FALSE]

C5_Witness ==
    /\ lastOp.op = "disconnectedEvent"
    /\ lastOp.retried
    /\ lastOp.rc0 = 4
    /\ lastOp.delay = 8000
    /\ retryCount = 5

\* C6: RetryCounter is 0 right after every connect-success event, whichever
\* network was joined, and right after every manual connect request.
C6_RetryCounterReset ==
    /\ lastOp.op = "connectedEvent" => retryCount = 0
    /\ (lastOp.op \in {"connectToNetwork", "connectToBestWifi"} /\ lastOp.ret = WMRT_SUCCESS
        /\ status.code = CONNECTING) => retryCount = 0

\* the registry entry a disconnect event was about
EventEntry == networks[lastOp.ret + 1]

\* the last step was a selector run that returned Success
SelectorSucceeded ==
    \/ lastOp.op = "connectToBestWifi" /\ lastOp.ret = WMRT_SUCCESS
    \/ lastOp.op \in {"disconnectedEvent", "scanDoneEvent"} /\ lastOp.aux = WMRT_SUCCESS

\* C7 as stated: after maxRetries consecutive ConnectionFailed disconnects of
\* one registry entry, counted from RetryCounter = 0, the entry is FailedBefore.
C7_FailedAfterMaxRetries ==
    (lastOp.op = "disconnectedEvent" /\ streak.n >= 1 /\ streak.n = maxRetries) =>
        EventEntry.state = NETWORK_FAILED_BEFORE

\* C7 as amended: after maxRetries + 1 consecutive ConnectionFailed disconnects
\* of one registry entry (the first attempt and maxRetries retries), counted
\* from RetryCounter = 0, the entry is FailedBefore, unless the selector pass the
\* same handler ran in autonomous mode found no usable candidate and reset it
\* to Unknown; the selector never chooses an entry that is FailedBefore; and a
\* selector pass over scan results that finds no usable candidate leaves no
\* entry FailedBefore.
C7_FailedAfterRetriesExhausted ==
    /\ (lastOp.op = "disconnectedEvent" /\ streak.n = maxRetries + 1) =>
          \/ EventEntry.state = NETWORK_FAILED_BEFORE
          \/ /\ autoConnect
             /\ lastOp.aux = WMRT_NETWORK_NOT_IN_LIST
             /\ scanComplete > 0
             /\ EventEntry.state = NETWORK_STATE_UNKNOWN
    /\ SelectorSucceeded =>
          /\ status.targetNetwork < length
          /\ networks[status.targetNetwork + 1].state # NETWORK_FAILED_BEFORE
    /\ (lastOp.op = "connectToBestWifi" /\ lastOp.ret = WMRT_NETWORK_NOT_IN_LIST
        /\ scanComplete > 0) =>
          \A i \in 1..length : networks[i].state # NETWORK_FAILED_BEFORE

C7_Witness ==
    /\ lastOp.op = "disconnectedEvent"
    /\ maxRetries >= 1
    /\ streak.n = maxRetries + 1
    /\ lastOp.rc0 = maxRetries
    /\ EventEntry.state = NETWORK_FAILED_BEFORE

\* C8: a retry is scheduled iff the disconnected SSID is a known index and
\* RetryCounter < maxRetries and the reason is not a deliberate leave; with
\* maxRetries = 0 none is scheduled; RetryCounter never exceeds maxRetries.
C8_RetryIff ==
    /\ lastOp.op = "disconnectedEvent" =>
          /\ lastOp.retried <=> (/\ lastOp.ret < length
                                /\ lastOp.rc0 < maxRetries
                                /\ ~IsLeave(lastOp.reason))
          /\ maxRetries = 0 => ~lastOp.retried
    /\ retryCount <= maxRetries

\* the scan results that match a registry entry which is not FailedBefore
Candidates ==
    {i \in 1..Len(scanResults) :
        \E k \in 1..length : /\ networks[k].ssid = scanResults[i].ssid
                             /\ networks[k].state # NETWORK_FAILED_BEFORE}

NoCandidate(nets, results) ==
    \A i \in 1..Len(results) :
        \A k \in 1..Len(nets) :
            nets[k].ssid = results[i].ssid => nets[k].state = NETWORK_FAILED_BEFORE

\* every FailedBefore entry became Unknown and nothing else changed
AllFailedReset ==
    /\ Len(networks') = Len(networks)
    /\ \A i \in 1..Len(networks) :
          /\ networks'[i].ssid = networks[i].ssid
          /\ networks'[i].pass = networks[i].pass
          /\ networks'[i].state = IF networks[i].state = NETWORK_FAILED_BEFORE
                                  THEN NETWORK_STATE_UNKNOWN
                                  ELSE networks[i].state

\* C10: a selector run on fresh scan results (at least one result) of which none
\* matches a registry entry that is not FailedBefore resets every FailedBefore
\* entry to Unknown, reports NetworkNotInList, issues no connect command and
\* leaves status and RetryCounter unchanged; run by the scan-done handler in
\* autonomous mode it does the same.
C10_NoCandidateResets ==
    [][/\ (/\ lastOp'.op = "connectToBestWifi"
           /\ scanComplete > 0
           /\ ~ScanIsOld(Mgr)
           /\ NoCandidate(networks, scanResults)) =>
              /\ AllFailedReset
              /\ lastOp'.ret = WMRT_NETWORK_NOT_IN_LIST
              /\ nextConnect' = nextConnect
              /\ status' = status
              /\ retryCount' = retryCount
       /\ (/\ lastOp'.op = "scanDoneEvent"
           /\ autoConnect
           /\ ~wlConnected
           /\ wifiman_countUsableNetworks(networks) > 0
           /\ scanComplete' > 0
           /\ NoCandidate(networks, scanResults')) =>
              /\ AllFailedReset
              /\ lastOp'.aux = WMRT_NETWORK_NOT_IN_LIST
              /\ nextConnect' = nextConnect
              /\ status' = status
              /\ retryCount' = retryCount]_vars

C10_Witness ==
    /\ lastOp.op = "connectToBestWifi"
    /\ lastOp.ret = WMRT_NETWORK_NOT_IN_LIST
    /\ lastOp.aux = 1
    /\ length = 1
    /\ networks[1].state = NETWORK_STATE_UNKNOWN
    /\ scanResults = << [ssid |-> networks[1].ssid, rssi |-> -40] >>

\* connectivity was lost for a reason that is no deliberate leave and no retry
\* is left
Lost ==
    /\ lastOp.op = "disconnectedEvent"
    /\ lastOp.ret < length
    /\ ~IsLeave(lastOp.reason)
    /\ ~lastOp.retried

\* C11: in autonomous mode, with the worker scheduled and the radio's events
\* delivered, once connectivity is lost for a non-deliberate reason with no
\* retry left while a registry network stays in range, a connect command is
\* eventually issued.
C11_EventuallyReconnects == Lost ~> ~nextConnect.handled

\* C12 as stated: the status callback is invoked by every manual connect
\* request, every connect-success event and every disconnect event, the
\* disconnect events after which a retry is scheduled included.
C12_CallbackOnEveryChange ==
    lastOp.op \in {"connectToNetwork", "connectedEvent", "disconnectedEvent"} => lastOp.cb

\* C12 as amended: the status callback is invoked by every manual connect
\* request, every connect-success event and every disconnect event after which
\* no retry is scheduled; a disconnect event of a known network with
\* RetryCounter < maxRetries and a reason other than ASSOC_LEAVE schedules a
\* retry and changes status.code without invoking the callback.
C12_CallbackUnlessRetry ==
    /\ lastOp.op \in {"connectToNetwork", "connectedEvent"} => lastOp.cb
    /\ lastOp.op = "disconnectedEvent" =>
          /\ status.code = IF IsLeave(lastOp.reason) THEN DISCONNECTED
                           ELSE IF lastOp.reason = WIFI_REASON_NO_AP_FOUND
                           THEN NETWORK_NOT_FOUND
                           ELSE CONNECTION_FAILED
          /\ lastOp.cb <=> ~(/\ lastOp.ret < length
                             /\ lastOp.rc0 < maxRetries
                             /\ lastOp.reason # WIFI_REASON_ASSOC_LEAVE)

C12_Witness ==
    /\ lastOp.op = "disconnectedEvent"
    /\ lastOp.reason = WIFI_REASON_AUTH_FAIL
    /\ lastOp.retried
    /\ ~lastOp.cb
    /\ status.code = CONNECTION_FAILED
    /\ ~nextConnect.handled

\* an empty passphrase and an absent one are the same credential
SamePass(a, b) ==
    (IF a = EmptyStr THEN NullStr ELSE a) = (IF b = EmptyStr THEN NullStr ELSE b)

\* C13: reading an index range right after saving the same range leaves, at
\* every index of the range below length, the same ssid, passphrase (or none)
\* and state, whatever the store held before.
C13_SaveLoadRoundTrip ==
    [][(/\ lastOp.op = "saveToEEPROM"
        /\ lastOp'.op = "readFromEEPROM"
        /\ lastOp'.arg = lastOp.arg
        /\ lastOp'.aux = lastOp.aux) =>
           \A i \in Slots :
              (/\ i >= lastOp.arg
               /\ i < lastOp.arg + lastOp.aux
               /\ i < length) =>
                  /\ Len(networks') > i
                  /\ networks'[i + 1].ssid = networks[i + 1].ssid
                  /\ networks'[i + 1].state = networks[i + 1].state
                  /\ SamePass(networks'[i + 1].pass, networks[i + 1].pass)]_vars

\* (now - deadline) mod 2^32 < 2^31
AtOrAfter(deadline) == U32Sub(now, deadline)[1] < Half \div 2

\* C14: the deadline test is true iff (now - deadline) mod 2^32 < 2^31; the
\* worker's connect step executes the local command iff it is unconsumed and
\* that holds, so a command is never executed before its deadline and is
\* executed at the first poll at or after it, also across the clock's wrap.
C14_DeadlineTest ==
    /\ _time_now_or_passed(connect.execTime, now) <=> AtOrAfter(connect.execTime)
    /\ _time_now_or_passed(nextConnect.execTime, now) <=> AtOrAfter(nextConnect.execTime)
    /\ lastOp.op = "workerConnect" => connect.handled /\ AtOrAfter(connect.execTime)
    /\ (lastOp.op = "workerNoConnect" /\ ~connect.handled) => ~AtOrAfter(connect.execTime)
    /\ (pc = "execScan" /\ ~connect.handled) => ~AtOrAfter(connect.execTime)

\* a command with a deadline just before the wrap is executed just after it
C14_Witness ==
    /\ lastOp.op = "workerConnect"
    /\ connect.execTime = << Half - 1, Half - 1 >>
    /\ now = << 0, 0 >>

\* C15: after wifiman_start, also after a stop, and until a connect request or a
\* radio event, the worker makes no connect and no scan call to the radio.
C15_StartNeverConnects ==
    service = "started" => lastOp.op \notin {"workerConnect", "workerScan"}

\* C16: after wifiman_stop returns, in both modes, the worker task takes no
\* step (its position and locals, the mailboxes and the radio stay as they are)
\* and no handler changes the manager's state.
C16_StoppedIsQuiet ==
    [][(service = "stopped" /\ service' = "stopped") =>
          /\ UNCHANGED << pc, connect, scan, notifyValue >>
          /\ UNCHANGED << nextConnect, nextScan, taskNotify >>
          /\ UNCHANGED << wlConnected, scanComplete, scanResults >>
          /\ UNCHANGED << networks, status, retryCount >>]_vars

\* the worker's scan step starts a scan on the periodic notification
PeriodicStart ==
    /\ pc = "execScan"
    /\ lastOp'.op = "workerScan"
    /\ lastOp'.aux # 0
    /\ scanComplete # WIFI_SCAN_RUNNING

\* C17: every periodic execution advances the scan deadline by exactly
\* scanInterval, and a periodic scan start is never less than scanInterval
\* after the periodic scan start before it, also after a pause.
C17_PeriodicSpacing ==
    [][/\ (lastOp'.op = "workerScan" /\ lastOp'.aux # 0) =>
             scan'.execTime = U32Add(scan.execTime, U32(scanInterval))
       /\ (PeriodicStart /\ lastPeriodic # Never) =>
             \/ U32Gt(U32Sub(now, lastPeriodic), scanInterval)
             \/ U32Sub(now, lastPeriodic) = U32(scanInterval)]_vars

\* a registry call with invalid arguments: a null or empty SSID, a new SSID on
\* a full registry, an index that is no entry
InvalidCall ==
    \/ /\ lastOp'.op = "addOrUpdateNetwork"
       /\ \/ lastOp'.arg \in {NullStr, EmptyStr}
          \/ IndexOf(networks, lastOp'.arg) = NoIndex /\ length = capacity
    \/ /\ lastOp'.op = "deleteNetwork"
       /\ lastOp'.arg >= length
    \/ /\ lastOp'.op = "deleteNetworkByName"
       /\ wifiman_findNetworkInList(networks, lastOp'.arg) >= length

\* C18: a registry operation called with invalid arguments returns the error
\* sentinel and leaves the entries, the length and the connection status as
\* they were.
C18_InvalidChangesNothing ==
    [][InvalidCall => /\ lastOp'.ret = NoIndex
                      /\ UNCHANGED << networks, status >>]_vars

\* the worker's pull of the shared connect command
PullStep == pc = "pullConnect" /\ lastOp'.op = "workerPullConnect"

\* a user-issued connect command is published and was not pulled yet
UserPublished == ~nextConnect.handled /\ nextConnect.issuedByUser

\* C19: a user-issued connect command published in the shared mailbox waits
\* there until the worker's next pull and is accepted by that pull whatever the
\* local copy holds, replacing a pending automatic retry; the pull accepts a
\* shared command iff it is user-issued or the local copy is handled or the
\* local copy is not user-issued, and marks the slot consumed only then.
C19_UserCommandAccepted ==
    [][/\ (UserPublished /\ ~PullStep) => (~nextConnect'.handled /\ nextConnect'.issuedByUser)
       /\ (UserPublished /\ PullStep) => (connect' = nextConnect /\ nextConnect'.handled)
       /\ (PullStep /\ ~nextConnect.handled) =>
             IF nextConnect.issuedByUser \/ connect.handled \/ ~connect.issuedByUser
             THEN connect' = nextConnect /\ nextConnect' = [nextConnect EXCEPT !.handled = TRUE]
             ELSE UNCHANGED << connect, nextConnect >>
       /\ (PullStep /\ nextConnect.handled) => UNCHANGED << connect, nextConnect >>]_vars

\* C20: after a manual connect request made some network the current target
\* (status Connecting), a retry that a disconnect event schedules is a retry
\* for that target, whatever network the event names.
C20_RetryTargetsCurrent ==
    [][(/\ status.code = CONNECTING
        /\ status.targetNetwork < length
        /\ lastOp'.op = "disconnectedEvent"
        /\ lastOp'.retried)
          => /\ ~nextConnect'.handled
             /\ nextConnect'.networkIndex = status.targetNetwork]_vars

\* a connect command that waits (in the mailbox or in the worker's local copy)
\* is adjusted or invalidated by the deletion of entry index
Adjusted(cmd, cmd2, index) ==
    IF cmd.handled \/ cmd.networkIndex < index THEN cmd2 = cmd
    ELSE IF cmd.networkIndex = index THEN cmd2.handled
    ELSE cmd2.handled \/ cmd2 = [cmd EXCEPT !.networkIndex = cmd.networkIndex - 1]

\* C21: a connect command the worker executes has networkIndex < length, and
\* the deletion of an entry at or before the index of a pending connect
\* command adjusts or invalidates that command, so the index keeps denoting
\* the entry the command was issued for.
C21_CommandIndexValid ==
    [][/\ lastOp'.op \in {"workerConnect", "workerCrash"} => lastOp'.arg < length
       /\ (lastOp'.op = "deleteNetwork" /\ lastOp'.ret # NoIndex) =>
             /\ Adjusted(nextConnect, nextConnect', lastOp'.ret)
             /\ Adjusted(connect, connect', lastOp'.ret)]_vars

\* the fields of the worker's local connect command come from one command
Whole(tag) == tag[1] = tag[2] /\ tag[2] = tag[3]

\* outside the copy itself
CopyDone == pc \notin {"copy2", "copy3"}

\* C22: the worker's local connect command is, outside the copy itself, the
\* complete triple (execTime, networkIndex, issuedByUser) of one issued
\* command, never a mix of two, and the shared slot is marked consumed only
\* when the command in it has been copied.
C22_NoTornCommand ==
    /\ [](CopyDone =>
            /\ Whole(mbox.tagLocal)
            /\ mbox.tagLocal[1] > 0 =>
                  LET c == mbox.log[mbox.tagLocal[1]] IN
                  /\ connect.execTime = c.execTime
                  /\ connect.networkIndex = c.networkIndex
                  /\ connect.issuedByUser = c.issuedByUser)
    /\ [][(~nextConnect.handled /\ nextConnect'.handled) =>
             /\ mbox.tagLocal = mbox.tagNext
             /\ Whole(mbox.tagNext)
             /\ connect.execTime = nextConnect.execTime
             /\ connect.networkIndex = nextConnect.networkIndex
             /\ connect.issuedByUser = nextConnect.issuedByUser]_vars

\* the worker has copied the first command whole while a producer, inside
\* the lock, has written only a part of the second into the slot
C22_Witness ==
    /\ pc = "pullScan"
    /\ mbox.tagLocal = << 1, 1, 1 >>
    /\ mbox.lock \in {"app", "ev"}
    /\ ~Whole(mbox.tagNext)

\* the last step was an event handler that ran the selector in autonomous mode
AutoSelectorRun ==
    /\ autoConnect
    /\ lastOp.op \in {"disconnectedEvent", "scanDoneEvent"}
    /\ lastOp.aux # NotRun

\* C23 as stated: after an autonomous selector run periodic scanning is resumed
\* iff the outcome was NetworkNotInList or ScanNotReady, and paused otherwise.
C23_ResumeIffNotInListOrNotReady ==
    AutoSelectorRun =>
        (taskNotify = 1 <=> lastOp.aux \in {WMRT_NETWORK_NOT_IN_LIST, WMRT_SCAN_NOT_READY})

\* C23: after an autonomous selector run periodic scanning is resumed iff the
\* outcome was NetworkNotInList, and paused for ScanNotReady and for Success.
C23_ResumeIffNotInList ==
    AutoSelectorRun =>
        /\ lastOp.aux \in {WMRT_NETWORK_NOT_IN_LIST, WMRT_SCAN_NOT_READY, WMRT_SUCCESS}
        /\ taskNotify = (IF lastOp.aux = WMRT_NETWORK_NOT_IN_LIST THEN 1 ELSE 0)

\* a selector run with the outcome ScanNotReady has paused the periodic
\* scanning that the worker had seen resumed
C23_Witness ==
    /\ AutoSelectorRun
    /\ lastOp.aux = WMRT_SCAN_NOT_READY
    /\ notifyValue = 1
    /\ taskNotify = 0

\* C24: a connect-to-best request made while the radio is connected, as the
\* public call or as the check an event handler runs, issues no connect and no
\* scan command, changes neither the status, RetryCounter nor an entry state,
\* and calls no callback.
C24_ConnectedIsNoOp ==
    [][(wlConnected /\ lastOp'.op \in {"connectToBestWifi", "scanDoneEvent"}) =>
          /\ UNCHANGED << nextConnect, nextScan, status, retryCount, networks >>
          /\ ~lastOp'.cb]_vars

\* C25: with no usable entry (every entry FailedBefore, or no entry) the public
\* connect-to-best call returns NetworkNotInList and issues no scan command
\* and no connect command and changes no entry state and no status.
C25_NoUsableNoAction ==
    [][(wifiman_countUsableNetworks(networks) = 0 /\ lastOp'.op = "connectToBestWifi") =>
          /\ lastOp'.ret = WMRT_NETWORK_NOT_IN_LIST
          /\ UNCHANGED << nextConnect, nextScan, status, networks >>]_vars

\* C26: a connect-success event for an SSID of the registry sets status.code
\* to Connected, status.targetNetwork to the joined entry's index and the
\* context field to the number of attempts (RetryCounter before the reset + 1),
\* makes the joined entry WorkedBefore, changes no other entry, and pauses
\* periodic scanning in autonomous mode.
C26_JoinedEffects ==
    [][(lastOp'.op = "connectedEvent" /\ lastOp'.ret < length) =>
          /\ status'.code = CONNECTED
          /\ status'.targetNetwork = lastOp'.ret
          /\ status'.info = retryCount + 1
          /\ networks' = [networks EXCEPT ![lastOp'.ret + 1].state = NETWORK_WORKED_BEFORE]
          /\ autoConnect => taskNotify' = 0]_vars

\* the number of leading populated slots of a list
LeadingPopulated(networkList) ==
    Cardinality({i \in 1..Len(networkList) : \A j \in 1..i : networkList[j] # NullSlot})

\* C27: creating a registry over a pre-existing list of the given capacity sets
\* length to the number of leading populated slots, for every fill level from
\* empty to completely full, so length <= capacity right after creation;
\* capacity 0 and capacity 255 are rejected and no registry is created.
C27_CreatedLength ==
    lastOp.op = "create" =>
        IF lastOp.arg.capacity \in {0, NoIndex}
        THEN lastOp.ret = NoRegistry /\ service = "uncreated"
        ELSE /\ lastOp.ret = length
             /\ lastOp.arg.given => length = LeadingPopulated(lastOp.arg.networkList)
             /\ length <= capacity

\* C28: in every reachable state, after any sequence of add/update/delete calls,
\* connect requests and connected/disconnected events, status.targetNetwork is
\* either the none sentinel (255) or an index < length.
C28_TargetInRange ==
    status.targetNetwork = NoIndex \/ status.targetNetwork < length

C28_Witness ==
    /\ lastOp.op = "deleteNetworkByName"
    /\ lastOp.ret = 0
    /\ lastOp.aux = 1
    /\ status.targetNetwork = 0
    /\ status.code = CONNECTED
    /\ length = 1

====
